---- MODULE Spec2Model ----
(***************************************************************************)
(* libzipfile central-directory reader (libzipfile/centraldir.c).          *)
(*                                                                         *)
(* The archive is a byte buffer file->buf of file->bufsize bytes.          *)
(* read_central_dir scans backward for the end-of-central-dir record,      *)
(* decodes it, and decodes totalEntryCount central-directory records,      *)
(* pushing each on the front of file->entries.                             *)
(***************************************************************************)
EXTENDS Integers, Sequences, FiniteSets, TLC

(* ------------------------------------------------------------------ *)
(* Format constants (the enum at the top of centraldir.c)              *)
(* ------------------------------------------------------------------ *)
CD_SIGNATURE == 101010256
EOCD_LEN == 22
MAX_COMMENT_LEN == 65535
MAX_EOCD_SEARCH == MAX_COMMENT_LEN + EOCD_LEN
ENTRY_SIGNATURE == 33639248
ENTRY_LEN == 46
LFH_SIZE == 30
kCompressionStored == 0
kCompressionDeflate == 8

(* ------------------------------------------------------------------ *)
(* Bounds of the explored inputs                                       *)
(* ------------------------------------------------------------------ *)
\* largest number of central-directory records in a generated archive
MaxEntries == 2
\* largest declared comment length / number of bytes after the EOCD record
MaxTail == 1

(* ------------------------------------------------------------------ *)
(* The buffer.  Its content is head, then gap zero bytes, then tail;   *)
(* offsets are 0-based like the C pointers relative to file->buf.      *)
(* ------------------------------------------------------------------ *)
BufLen(b) == Len(b.head) + b.gap + Len(b.tail)

ByteAt(b, o) ==
    IF o < Len(b.head) THEN b.head[o + 1]
    ELSE IF o < Len(b.head) + b.gap THEN 0
    ELSE b.tail[o - Len(b.head) - b.gap + 1]

\* A read of offset o.  Inside the buffer it yields the byte stored there;
\* outside it the C read is undefined and yields the byte u.
ReadByte(b, o, u) == IF 0 <= o /\ o < BufLen(b) THEN ByteAt(b, o) ELSE u

\* read_le_short / read_le_int of the bytes at offset o.  The result of
\* read_le_int is an unsigned int; the explored buffers keep the top bit of
\* every 32-bit field clear, so that the value is below 2^31.
read_le_short(b, o) == ByteAt(b, o) + 256 * ByteAt(b, o + 1)

read_le_int(b, o) ==
    ByteAt(b, o) + 256 * ByteAt(b, o + 1) + 65536 * ByteAt(b, o + 2)
        + 16777216 * ByteAt(b, o + 3)

(* ------------------------------------------------------------------ *)
(* Input archives: little-endian encoders and record layouts           *)
(* ------------------------------------------------------------------ *)
LE16(v) == << v % 256, (v \div 256) % 256 >>

LE32(v) == << v % 256, (v \div 256) % 256, (v \div 65536) % 256,
              (v \div 16777216) % 256 >>

Fill(n, v) == [k \in 1..n |-> v]

\* the three kinds of archive member used to build inputs
Shape(id) ==
    CASE id = 1 -> [method |-> 0, fnl |-> 1, efl |-> 0, fcl |-> 0, xlen |-> 0,
                    csize |-> 1, usize |-> 1, dlen |-> 1]
      [] id = 2 -> [method |-> 8, fnl |-> 2, efl |-> 1, fcl |-> 1, xlen |-> 2,
                    csize |-> 2, usize |-> 5, dlen |-> 2]
      [] OTHER  -> [method |-> 12, fnl |-> 1, efl |-> 0, fcl |-> 0, xlen |-> 0,
                    csize |-> 2147483647, usize |-> 2147483647, dlen |-> 1]

ShapeIds == 1..3

EntryLists == UNION { [1..n -> ShapeIds] : n \in 0..MaxEntries }

LocalSize(s) == LFH_SIZE + s.fnl + s.xlen + s.dlen

RecordSize(s) == ENTRY_LEN + s.fnl + s.efl + s.fcl

RECURSIVE LocalOff(_, _)
\* offset of the k-th member's local file header
LocalOff(list, k) ==
    IF k <= 1 THEN 0 ELSE LocalOff(list, k - 1) + LocalSize(Shape(list[k - 1]))

CdStart(list) == LocalOff(list, Len(list) + 1)

RECURSIVE RecOff(_, _)
\* offset of the k-th central-directory record
RecOff(list, k) ==
    IF k <= 1 THEN CdStart(list)
    ELSE RecOff(list, k - 1) + RecordSize(Shape(list[k - 1]))

EocdOff(list) == RecOff(list, Len(list) + 1)

DataOff(list, k) ==
    LocalOff(list, k) + LFH_SIZE + Shape(list[k]).fnl + Shape(list[k]).xlen

LocalBytes(s) ==
    LE32(67324752) \o Fill(4, 0) \o LE16(s.method) \o Fill(8, 0)
      \o LE32(s.csize) \o LE32(s.usize) \o LE16(s.fnl) \o LE16(s.xlen)
      \o Fill(s.fnl, 97) \o Fill(s.xlen, 0) \o Fill(s.dlen, 80)

RecordBytes(s, lho) ==
    LE32(ENTRY_SIGNATURE) \o Fill(6, 0) \o LE16(s.method) \o Fill(8, 0)
      \o LE32(s.csize) \o LE32(s.usize) \o LE16(s.fnl) \o LE16(s.efl)
      \o LE16(s.fcl) \o Fill(8, 0) \o LE32(lho)
      \o Fill(s.fnl, 97) \o Fill(s.efl, 0) \o Fill(s.fcl, 0)

EocdBytes(n, cdSize, cdOff, commentLen) ==
    LE32(CD_SIGNATURE) \o LE16(0) \o LE16(0) \o LE16(n) \o LE16(n)
      \o LE32(cdSize) \o LE32(cdOff) \o LE16(commentLen)

RECURSIVE LocalsOf(_, _)
LocalsOf(list, k) ==
    IF k > Len(list) THEN << >>
    ELSE LocalBytes(Shape(list[k])) \o LocalsOf(list, k + 1)

RECURSIVE RecordsOf(_, _)
RecordsOf(list, k) ==
    IF k > Len(list) THEN << >>
    ELSE RecordBytes(Shape(list[k]), LocalOff(list, k)) \o RecordsOf(list, k + 1)

\* a well-formed archive of the members in list, whose EOCD record declares
\* a comment of c bytes and is followed by t zero bytes
Archive(list, c, t) ==
    LocalsOf(list, 1) \o RecordsOf(list, 1)
      \o EocdBytes(Len(list), EocdOff(list) - CdStart(list), CdStart(list), c)
      \o Fill(t, 0)

ArchiveLen(list, t) == EocdOff(list) + EOCD_LEN + t

\* overwrite the bytes of s at 0-based offset off
Patch(s, off, bytes) ==
    [k \in 1..Len(s) |->
        IF k > off /\ k <= off + Len(bytes) THEN bytes[k - off] ELSE s[k]]

(* ------------------------------------------------------------------ *)
(* The explored buffers: well-formed archives, archives with one field *)
(* overwritten, and a few buffers built for the EOCD search.           *)
(* ------------------------------------------------------------------ *)
NoPatch == [off |-> 0, bytes |-> << >>]

\* overwrites of one field of the EOCD record
EocdPatches(list, t) ==
    LET E == EocdOff(list)
        L == ArchiveLen(list, t)
        N == Len(list)
    IN  { [off |-> E, bytes |-> LE32(0)],
          [off |-> E + 4, bytes |-> LE16(1)],
          [off |-> E + 6, bytes |-> LE16(1)],
          [off |-> E + 8, bytes |-> LE16(N + 1)],
          [off |-> E + 10, bytes |-> LE16(N + 1)],
          [off |-> E + 20, bytes |-> LE16(65535)] }
        \cup { [off |-> E + 16, bytes |-> LE32(v)] :
                 v \in {E, L, L + 1, 2147483647} }

\* overwrites of one field of the k-th record or of its local file header
EntryPatches(list, t, k) ==
    LET R == RecOff(list, k)
        H == LocalOff(list, k)
        D == DataOff(list, k)
        L == ArchiveLen(list, t)
        s == Shape(list[k])
    IN  { [off |-> R, bytes |-> LE32(0)] }
        \cup { [off |-> R + 10, bytes |-> LE16(v)] : v \in {0, 8, 12} }
        \cup { [off |-> R + 20, bytes |-> LE32(v)] : v \in {L - D, L - D + 1} }
        \cup { [off |-> R + 24, bytes |-> LE32(v)] : v \in {L - D, L - D + 1} }
        \cup { [off |-> R + 28, bytes |-> LE16(v)] : v \in {0, s.fnl + 1, 65535} }
        \cup { [off |-> R + 30, bytes |-> LE16(v)] : v \in {s.efl + 1, 65535} }
        \cup { [off |-> R + 32, bytes |-> LE16(v)] : v \in {s.fcl + 1, 65535} }
        \cup { [off |-> R + 42, bytes |-> LE32(v)] :
                 v \in {L - LFH_SIZE, L - 1, L, 2147483647} }
        \cup { [off |-> H + 28, bytes |-> LE16(v)] :
                 v \in {L - 1 - (D - s.xlen), L - (D - s.xlen), 65535} }

Short(bytes) == [head |-> << >>, gap |-> 0, tail |-> bytes]

\* archives with every combination of declared comment length and bytes
\* after the EOCD record, as built or with one EOCD field overwritten
TailBuffers ==
    UNION { { Short(Patch(Archive(list, c, t), m.off, m.bytes)) :
                m \in {NoPatch} \cup EocdPatches(list, t) } :
            list \in EntryLists, c \in 0..MaxTail, t \in 0..MaxTail }

\* archives ending with the EOCD record, with one field of one record or of
\* one local file header overwritten
EntryBuffers ==
    UNION { { Short(Patch(Archive(list, 0, 0), m.off, m.bytes)) :
                m \in UNION { EntryPatches(list, 0, k) : k \in 1..Len(list) } } :
            list \in EntryLists }

PatchedBuffers == TailBuffers \cup EntryBuffers

EmptyEocd == EocdBytes(0, 0, 0, 0)

\* an archive followed by a second EOCD signature or a second EOCD record
DoubleBuffers ==
    { Short(Archive(list, 0, 0) \o x) :
        list \in EntryLists,
        x \in { LE32(CD_SIGNATURE), EmptyEocd, Patch(EmptyEocd, 4, LE16(1)) } }

\* buffers shorter than an EOCD record
TinyBuffers == { Short(SubSeq(EmptyEocd, 1, n)) : n \in {0, 4, EOCD_LEN - 1} }

\* an EOCD record at offset k followed by zero bytes up to a length around
\* the size of the search window
LongBuffers ==
    { [head |-> Fill(k, 0) \o EmptyEocd, gap |-> n - EOCD_LEN - k, tail |-> << >>] :
        k \in 0..1, n \in {MAX_EOCD_SEARCH, MAX_EOCD_SEARCH + 1} }

Buffers == PatchedBuffers \cup DoubleBuffers \cup TinyBuffers \cup LongBuffers

\* the buffer b without its final byte
DropLast(b) ==
    IF Len(b.tail) > 0 THEN [b EXCEPT !.tail = SubSeq(b.tail, 1, Len(b.tail) - 1)]
    ELSE IF b.gap > 0 THEN [b EXCEPT !.gap = b.gap - 1]
    ELSE [b EXCEPT !.head = SubSeq(b.head, 1, Len(b.head) - 1)]

(* ------------------------------------------------------------------ *)
(* read_central_dir_values                                             *)
(* ------------------------------------------------------------------ *)
\* the Zipfile fields as init_zipfile's memset leaves them
EmptyFile ==
    [disknum |-> 0, diskWithCentralDir |-> 0, entryCount |-> 0,
     totalEntryCount |-> 0, centralDirSize |-> 0, centralDirOffest |-> 0,
     commentLen |-> 0, comment |-> -1, entries |-> << >>]

\* "looks like ZIP file got truncated"
EocdTooShort(len) == len < EOCD_LEN

\* the comment check allowing one byte too many
CommentTooLongOffByOne(commentLen, len) ==
    commentLen > 0 /\ EOCD_LEN + commentLen > len + 1

\* "EOCD + comment exceeds len"
CommentTooLong(commentLen, len) ==
    commentLen > 0 /\ EOCD_LEN + commentLen > len

\* b is the buffer, eocd the record's offset, len the bytes from eocd to
\* the buffer's end; f is the Zipfile the values are stored into
read_central_dir_values(f, b, eocd, len) ==
    IF EocdTooShort(len)
    THEN [ret |-> -1, err |-> "Truncated", file |-> f, reads |-> {}]
    ELSE LET g == [f EXCEPT
                     !.disknum = read_le_short(b, eocd + 4),
                     !.diskWithCentralDir = read_le_short(b, eocd + 6),
                     !.entryCount = read_le_short(b, eocd + 8),
                     !.totalEntryCount = read_le_short(b, eocd + 10),
                     !.centralDirSize = read_le_int(b, eocd + 12),
                     !.centralDirOffest = read_le_int(b, eocd + 16),
                     !.commentLen = read_le_short(b, eocd + 20)]
             rd == (eocd + 4)..(eocd + 21)
         IN  IF CommentTooLong(g.commentLen, len)
             THEN [ret |-> -1, err |-> "Truncated", file |-> g, reads |-> rd]
             ELSE [ret |-> 0, err |-> "None",
                   file |-> IF g.commentLen > 0
                            THEN [g EXCEPT !.comment = eocd + EOCD_LEN] ELSE g,
                   reads |-> rd]

(* ------------------------------------------------------------------ *)
(* read_central_directory_entry                                        *)
(* ------------------------------------------------------------------ *)
NoEntry ==
    [compressionMethod |-> 0, compressedSize |-> 0, uncompressedSize |-> 0,
     fileNameLength |-> 0, fileName |-> -1, data |-> -1]

\* "cde entry not large enough": *len is a signed ssize_t
EntryTooShort(len) == len < ENTRY_LEN

\* no check for an empty file name
NameMissingNever(fileNameLength) == FALSE

\* "cde entry does not contain a file name"
NameMissing(fileNameLength) == fileNameLength = 0

\* "cde entry not large enough for ..." a variable-length field
FieldTooLong(fieldLength, remaining) == fieldLength > remaining

\* the cursor advanced without the file comment
CursorAfterNoComment(p, fileNameLength, extraFieldLength, fileCommentLength) ==
    p + ENTRY_LEN + fileNameLength + extraFieldLength

\* the cursor after the fixed record and its three variable-length fields
CursorAfter(p, fileNameLength, extraFieldLength, fileCommentLength) ==
    p + ENTRY_LEN + fileNameLength + extraFieldLength + fileCommentLength

\* "Invalid local header offset": p >= bufLimit with p = buf + offset
LocalHeaderOutside(localHeaderRelOffset, bufsize) ==
    localHeaderRelOffset >= bufsize

\* dataOffset, an unsigned int.  The local header offset is below bufsize
\* (LocalHeaderOutside has been ruled out) and the two lengths are 16-bit,
\* so the sum does not wrap for the buffer sizes explored.
DataOffsetOf(localHeaderRelOffset, fileNameLength, extraFieldLength) ==
    localHeaderRelOffset + LFH_SIZE + fileNameLength + extraFieldLength

\* the data offset checked against the buffer's start only
DataOutsideNoLimit(data, bufsize) == data < 0

\* "Invalid data offset": data < buf or data >= bufLimit
DataOutside(data, bufsize) == data < 0 \/ data >= bufsize

\* the stored check comparing the compressed size
StoredTooBigCompressed(e, bufsize) ==
    e.compressionMethod = kCompressionStored
        /\ e.compressedSize > bufsize - e.data

\* "Invalid uncompressed size for stored entry".  bufLimit - entry->data is
\* positive here (DataOutside has been ruled out), so the cast to unsigned
\* int leaves it unchanged.
StoredTooBig(e, bufsize) ==
    e.compressionMethod = kCompressionStored
        /\ e.uncompressedSize > bufsize - e.data

\* "Invalid uncompressed size for deflated entry"
DeflateTooBig(e, bufsize) ==
    e.compressionMethod = kCompressionDeflate
        /\ e.compressedSize > bufsize - e.data

\* b is the buffer, p and len the cursor (*buf, *len), u the two bytes a
\* read outside the buffer yields.  p and len of the result are the cursor
\* the caller is left with.
read_central_directory_entry(b, p, len, u) ==
    LET bufsize == BufLen(b)
        Res(r, e, en, q, l, rd) ==
            [ret |-> r, err |-> e, entry |-> en, p |-> q, len |-> l, reads |-> rd]
    IN
    IF EntryTooShort(len) THEN Res(-1, "Truncated", NoEntry, p, len, {})
    ELSE IF read_le_int(b, p) # ENTRY_SIGNATURE
    THEN Res(-1, "BadSignature", NoEntry, p, len, p..(p + 3))
    ELSE
    LET e1 == [NoEntry EXCEPT
                 !.compressionMethod = read_le_short(b, p + 10),
                 !.compressedSize = read_le_int(b, p + 20),
                 !.uncompressedSize = read_le_int(b, p + 24),
                 !.fileNameLength = read_le_short(b, p + 28)]
        extraFieldLength == read_le_short(b, p + 30)
        fileCommentLength == read_le_short(b, p + 32)
        localHeaderRelOffset == read_le_int(b, p + 42)
        rd1 == (p..(p + 3)) \cup {p + 10, p + 11} \cup ((p + 20)..(p + 33))
                 \cup ((p + 42)..(p + 45))
        rem1 == len - ENTRY_LEN
        rem2 == rem1 - e1.fileNameLength
        rem3 == rem2 - extraFieldLength
        rem4 == rem3 - fileCommentLength
        e2 == [e1 EXCEPT !.fileName = p + ENTRY_LEN]
        q == CursorAfter(p, e1.fileNameLength, extraFieldLength, fileCommentLength)
    IN
    IF NameMissing(e1.fileNameLength)
    THEN Res(1, "MissingFileName", e1, p, len, rd1)
    ELSE IF FieldTooLong(e1.fileNameLength, rem1)
    THEN Res(1, "Truncated", e1, p, len, rd1)
    ELSE IF FieldTooLong(extraFieldLength, rem2)
    THEN Res(1, "Truncated", e2, p, len, rd1)
    ELSE IF FieldTooLong(fileCommentLength, rem3)
    THEN Res(1, "Truncated", e2, p, len, rd1)
    ELSE IF LocalHeaderOutside(localHeaderRelOffset, bufsize)
    THEN Res(1, "InvalidLocalHeaderOffset", e2, q, rem4, rd1)
    ELSE
    LET localExtra == ReadByte(b, localHeaderRelOffset + 28, u[1])
                        + 256 * ReadByte(b, localHeaderRelOffset + 29, u[2])
        rd2 == rd1 \cup {localHeaderRelOffset + 28, localHeaderRelOffset + 29}
        e3 == [e2 EXCEPT !.data = DataOffsetOf(localHeaderRelOffset,
                                       e1.fileNameLength, localExtra)]
    IN
    IF DataOutside(e3.data, bufsize)
    THEN Res(1, "InvalidDataOffset", e3, q, rem4, rd2)
    ELSE IF StoredTooBig(e3, bufsize)
    THEN Res(1, "InvalidDeclaredSize", e3, q, rem4, rd2)
    ELSE IF DeflateTooBig(e3, bufsize)
    THEN Res(1, "InvalidDeclaredSize", e3, q, rem4, rd2)
    ELSE Res(0, "None", e3, q, rem4, rd2)

(* ------------------------------------------------------------------ *)
(* read_central_dir, one action per step.  Pointers into the buffer    *)
(* are offsets from file->buf; a pointer formed outside the buffer     *)
(* (p-- below buf, buf + centralDirOffest past the end) is the offset  *)
(* flat address arithmetic gives, and only dereferencing it is         *)
(* undefined.  ssize_t and size_t are 64 bits wide.                    *)
(* ------------------------------------------------------------------ *)
VARIABLES
    buf,     \* file->buf and file->bufsize: the archive bytes
    file,    \* the other Zipfile fields, with entries as a list, head first
    pc,      \* position in read_central_dir
    start,   \* first offset of the EOCD search window
    p,       \* the scan pointer, then the entry cursor (offsets from buf)
    eocd,    \* offset of the EOCD record found by the scan
    len,     \* bytes left from the entry cursor to the buffer's end
    i,       \* loop counter of the entry loop
    ret,     \* read_central_dir's return value, once pc = "done"
    err,     \* the kind of failure, named after the diagnostic printed
    reads,   \* the buffer offsets read by the latest step
    prev     \* outcome of the previous parse and how buf derives from its buffer

vars == <<buf, file, pc, start, p, eocd, len, i, ret, err, reads, prev>>

bufsize == BufLen(buf)

\* a search window that always spans the whole buffer
SearchStartWholeBuffer(size) == 0

\* first offset of the search window ("find the end-of-central-dir magic")
SearchStart(size) ==
    IF size > MAX_EOCD_SEARCH THEN size - MAX_EOCD_SEARCH ELSE 0

\* *p == 0x50 && read_le_int(p) == CD_SIGNATURE
IsEocdMagic(b, q) == ByteAt(b, q) = 80 /\ read_le_int(b, q) = CD_SIGNATURE

\* the spanning check without the disk holding the central directory
IsSpanningNoDiskWith(f) ==
    f.disknum # 0 \/ f.entryCount # f.totalEntryCount

\* "Archive spanning not supported"
IsSpanning(f) ==
    f.disknum # 0 \/ f.diskWithCentralDir # 0
        \/ f.entryCount # f.totalEntryCount

\* the entry added at the back of the list
AppendEntry(entries, entry) == entries \o <<entry>>

\* "add it to our list": entry->next = file->entries; file->entries = entry
PushEntry(entries, entry) == <<entry>> \o entries

\* the bytes a read outside the buffer may yield
OobBytes == {0, 1, 255}

NoPrev == [mode |-> "first", ret |-> 0, err |-> "None", entries |-> << >>,
           eocd |-> -1, commentLen |-> 0, bufsize |-> 0]

Fresh ==
    /\ file = EmptyFile
    /\ pc = "start"
    /\ start = 0
    /\ p = 0
    /\ eocd = -1
    /\ len = 0
    /\ i = 0
    /\ ret = 0
    /\ err = "None"
    /\ reads = {}

\* a new Zipfile and a new call of read_central_dir
Restart ==
    /\ file' = EmptyFile
    /\ pc' = "start"
    /\ start' = 0
    /\ p' = 0
    /\ eocd' = -1
    /\ len' = 0
    /\ i' = 0
    /\ ret' = 0
    /\ err' = "None"
    /\ reads' = {}

Init ==
    /\ buf \in Buffers
    /\ prev = NoPrev
    /\ Fresh

Bail(e) ==
    /\ pc' = "done"
    /\ ret' = -1
    /\ err' = e

\* "too small to be a ZIP archive?", then the set-up of the scan
Begin ==
    /\ pc = "start"
    /\ reads' = {}
    /\ IF bufsize < EOCD_LEN
       THEN /\ Bail("NotAZip")
            /\ UNCHANGED <<start, p>>
       ELSE /\ start' = SearchStart(bufsize)
            /\ p' = bufsize - 4
            /\ pc' = "scan"
            /\ UNCHANGED <<ret, err>>
    /\ UNCHANGED <<buf, file, eocd, len, i, prev>>

\* one iteration of while (p >= start)
ScanStep ==
    /\ pc = "scan"
    /\ p >= start
    /\ reads' = IF ByteAt(buf, p) = 80 THEN p..(p + 3) ELSE {p}
    /\ IF IsEocdMagic(buf, p)
       THEN /\ eocd' = p
            /\ pc' = "values"
            /\ p' = p
       ELSE /\ p' = p - 1
            /\ UNCHANGED <<eocd, pc>>
    /\ UNCHANGED <<buf, file, start, len, i, ret, err, prev>>

\* the loop ran out of the window: "EOCD not found, not Zip"
ScanFail ==
    /\ pc = "scan"
    /\ p < start
    /\ reads' = {}
    /\ Bail("NotAZip")
    /\ UNCHANGED <<buf, file, start, p, eocd, len, i, prev>>

\* "extract eocd values", the spanning check, and the set-up of the loop
ReadValues ==
    /\ pc = "values"
    /\ LET r == read_central_dir_values(file, buf, eocd, bufsize - eocd)
       IN  /\ file' = r.file
           /\ reads' = r.reads
           /\ IF r.ret # 0
              THEN /\ Bail(r.err)
                   /\ UNCHANGED <<p, len, i>>
              ELSE IF IsSpanning(r.file)
              THEN /\ Bail("SpanningUnsupported")
                   /\ UNCHANGED <<p, len, i>>
              ELSE /\ p' = r.file.centralDirOffest
                   /\ len' = bufsize - r.file.centralDirOffest
                   /\ i' = 0
                   /\ pc' = "entries"
                   /\ UNCHANGED <<ret, err>>
    /\ UNCHANGED <<buf, start, eocd, prev>>

\* one iteration of the entry loop
ReadEntry ==
    /\ pc = "entries"
    /\ i < file.totalEntryCount
    /\ LET r0 == read_central_directory_entry(buf, p, len, <<0, 0>>)
           outside == \E o \in r0.reads : o < 0 \/ o >= bufsize
       IN  \/ \E u \in (IF outside THEN OobBytes \X OobBytes ELSE {<<0, 0>>}) :
                LET r == read_central_directory_entry(buf, p, len, u)
                IN  /\ reads' = r.reads
                    /\ p' = r.p
                    /\ len' = r.len
                    /\ IF r.ret # 0
                       THEN /\ Bail(r.err)
                            /\ UNCHANGED <<file, i>>
                       ELSE /\ file' = [file EXCEPT
                                          !.entries = PushEntry(@, r.entry)]
                            /\ i' = i + 1
                            /\ UNCHANGED <<pc, ret, err>>
           \/ /\ outside
              \* the read outside the buffer faults
              /\ reads' = r0.reads
              /\ pc' = "crashed"
              /\ UNCHANGED <<file, p, len, i, ret, err>>
    /\ UNCHANGED <<buf, start, eocd, prev>>

\* the loop is over: return 0
Finish ==
    /\ pc = "entries"
    /\ i >= file.totalEntryCount
    /\ pc' = "done"
    /\ ret' = 0
    /\ reads' = {}
    /\ UNCHANGED <<buf, file, start, p, eocd, len, i, err, prev>>

Outcome(mode) ==
    [mode |-> mode, ret |-> ret, err |-> err,
     entries |-> file.entries, eocd |-> eocd,
     commentLen |-> file.commentLen, bufsize |-> bufsize]

\* after a successful parse, a second parse of the same buffer with a
\* fresh Zipfile
Reparse ==
    /\ pc = "done"
    /\ ret = 0
    /\ prev.mode = "first"
    /\ prev' = Outcome("same")
    /\ buf' = buf
    /\ Restart

\* after a successful parse, a parse of the buffer without its final byte,
\* with a fresh Zipfile
Truncate ==
    /\ pc = "done"
    /\ ret = 0
    /\ prev.mode = "first"
    /\ prev' = Outcome("trunc")
    /\ buf' = DropLast(buf)
    /\ Restart

Next ==
    \/ Begin
    \/ ScanStep
    \/ ScanFail
    \/ ReadValues
    \/ ReadEntry
    \/ Finish
    \/ Reparse
    \/ Truncate

Spec == Init /\ [][Next]_vars

(* ------------------------------------------------------------------ *)
(* Vocabulary of the properties, computed from the buffer alone        *)
(* ------------------------------------------------------------------ *)
Done == pc = "done"
Succeeded == pc = "done" /\ ret = 0
Failed == pc = "done" /\ ret # 0
Stopped == pc \in {"done", "crashed"}

\* fields of the central-directory record at offset r
RecSig(r) == read_le_int(buf, r)
RecMethod(r) == read_le_short(buf, r + 10)
RecCSize(r) == read_le_int(buf, r + 20)
RecUSize(r) == read_le_int(buf, r + 24)
RecNameLen(r) == read_le_short(buf, r + 28)
RecExtraLen(r) == read_le_short(buf, r + 30)
RecCommentLen(r) == read_le_short(buf, r + 32)
RecLocalOff(r) == read_le_int(buf, r + 42)
RecEnd(r) == r + 46 + RecNameLen(r) + RecExtraLen(r) + RecCommentLen(r)

\* data offset of the record at r, whose local header lies in the buffer
RecData(r) ==
    RecLocalOff(r) + 30 + RecNameLen(r) + read_le_short(buf, RecLocalOff(r) + 28)

RECURSIVE RecordStart(_)
\* offset of the j-th record of the central directory, j >= 1
RecordStart(j) ==
    IF j = 1 THEN read_le_int(buf, eocd + 16) ELSE RecEnd(RecordStart(j - 1))

\* the descriptor of the record at r
Descriptor(r) ==
    [compressionMethod |-> RecMethod(r), compressedSize |-> RecCSize(r),
     uncompressedSize |-> RecUSize(r), fileNameLength |-> RecNameLen(r),
     fileName |-> r + 46, data |-> RecData(r)]

\* offsets of the window of the backward scan that hold the EOCD signature
Matches ==
    { q \in (IF bufsize > 65557 THEN bufsize - 65557 ELSE 0)..(bufsize - 4) :
        /\ ByteAt(buf, q) = 80
        /\ ByteAt(buf, q + 1) = 75
        /\ ByteAt(buf, q + 2) = 5
        /\ ByteAt(buf, q + 3) = 6 }

Greatest(S) == CHOOSE m \in S : \A x \in S : x <= m

\* the cursor stands at a record that passes steps 1 to 8 of the decoder
PassesSteps1To8 ==
    /\ len >= 46
    /\ RecSig(p) = 33639248
    /\ RecNameLen(p) # 0
    /\ 46 + RecNameLen(p) + RecExtraLen(p) + RecCommentLen(p) <= len
    /\ RecLocalOff(p) < bufsize - 29
    /\ RecData(p) < bufsize

BeforeIteration == pc = "entries" /\ i < file.totalEntryCount

(* ------------------------------------------------------------------ *)
(* Properties                                                          *)
(* ------------------------------------------------------------------ *)

\* C1: every offset read by read_central_dir and its helpers lies in
\* [0, bufsize): the scan, the EOCD fields, the record fields and the
\* extra-field length of the local file header.
C1_ReadsInsideBuffer == \A o \in reads : 0 <= o /\ o < bufsize

\* C2: after a successful parse every entry's data offset d equals
\* localHeaderRelOffset + 30 + fileNameLength + the local header's extra-field
\* length, 0 <= d < bufsize, and a stored entry has d + uncompressedSize <=
\* bufsize, a deflated one d + compressedSize <= bufsize.
C2_DataInsideBuffer ==
    Succeeded =>
        \A k \in 1..Len(file.entries) :
            LET e == file.entries[k]
                r == e.fileName - 46
            IN  /\ RecLocalOff(r) < bufsize - 29
                /\ e.data = RecData(r)
                /\ 0 <= e.data /\ e.data < bufsize
                /\ e.compressionMethod = 0 =>
                       e.uncompressedSize <= bufsize - e.data
                /\ e.compressionMethod = 8 =>
                       e.compressedSize <= bufsize - e.data

\* a stored entry whose data ends exactly at the buffer's end was accepted
C2_Witness ==
    /\ Succeeded
    /\ \E k \in 1..Len(file.entries) :
         /\ file.entries[k].compressionMethod = 0
         /\ file.entries[k].uncompressedSize > 1
         /\ file.entries[k].data + file.entries[k].uncompressedSize = bufsize

\* C3: whenever read_central_dir reports failure, the entry collection of
\* the archive descriptor holds no entry of the failed parse.
C3_AllOrNothing == Failed => file.entries = << >>

\* C4: after a successful parse the collection holds exactly
\* totalEntryCount descriptors, the j-th record from centralDirOffset being
\* the j-th descriptor from the back, and a second parse of the same buffer
\* succeeds with the same sequence.
C4_CountOrderDeterminism ==
    /\ Succeeded =>
         /\ Len(file.entries) = read_le_short(buf, eocd + 10)
         /\ \A j \in 1..Len(file.entries) :
              file.entries[Len(file.entries) - j + 1] = Descriptor(RecordStart(j))
    /\ (Stopped /\ prev.mode = "same" /\ prev.ret = 0) =>
         Succeeded /\ file.entries = prev.entries

\* the second parse of a buffer with at least two records has succeeded
C4_Witness ==
    /\ Succeeded
    /\ prev.mode = "same"
    /\ Len(file.entries) >= 2
    /\ file.entries[1].fileName > file.entries[2].fileName

\* C5 as claimed: if the parse of a buffer succeeds, the parse of that buffer
\* without its final byte fails with NotAZip or Truncated.
C5_TruncationFails ==
    (Stopped /\ prev.mode = "trunc" /\ prev.ret = 0) =>
        Failed /\ err \in {"NotAZip", "Truncated"}

\* C5 amended: if the parse of a buffer succeeds and the EOCD record it used
\* together with its declared comment ends exactly at the buffer's end, the
\* parse of that buffer without its final byte fails with NotAZip or
\* Truncated.
C5_TruncationOfExactArchiveFails ==
    (/\ Stopped
     /\ prev.mode = "trunc"
     /\ prev.ret = 0
     /\ prev.eocd + 22 + prev.commentLen = prev.bufsize) =>
        Failed /\ err \in {"NotAZip", "Truncated"}

\* an archive with a record and a comment was parsed, then its truncation
\* was rejected as truncated
C5_Witness ==
    /\ Failed
    /\ err = "Truncated"
    /\ prev.mode = "trunc"
    /\ prev.ret = 0
    /\ prev.commentLen > 0
    /\ prev.eocd + 22 + prev.commentLen = prev.bufsize
    /\ Len(prev.entries) >= 1

\* the EOCD record found lies wholly in the buffer and declares a disk
\* number or a disk with the central directory other than 0, or two
\* different entry counts
DeclaresSpanning ==
    /\ Done
    /\ eocd >= 0
    /\ eocd + 22 <= bufsize
    /\ \/ read_le_short(buf, eocd + 4) # 0
       \/ read_le_short(buf, eocd + 6) # 0
       \/ read_le_short(buf, eocd + 8) # read_le_short(buf, eocd + 10)

\* no record was decoded: the entry loop was never set up
NothingDecoded == file.entries = << >> /\ i = 0 /\ p = eocd /\ len = 0

\* C6 as claimed: a buffer whose EOCD record declares spanning always yields
\* SpanningUnsupported, and no record is decoded.
C6_SpanningRejected ==
    DeclaresSpanning =>
        Failed /\ err = "SpanningUnsupported" /\ NothingDecoded

\* C6 amended: a buffer whose EOCD record declares spanning, and whose
\* declared comment (if any) fits in the bytes after the record, yields
\* SpanningUnsupported, and no record is decoded.
C6_SpanningRejectedAfterEocdDecode ==
    (/\ DeclaresSpanning
     /\ \/ read_le_short(buf, eocd + 20) = 0
        \/ 22 + read_le_short(buf, eocd + 20) <= bufsize - eocd) =>
        Failed /\ err = "SpanningUnsupported" /\ NothingDecoded

\* an archive with records whose EOCD declares disk number 1 was rejected
C6_Witness ==
    /\ Failed
    /\ err = "SpanningUnsupported"
    /\ read_le_short(buf, eocd + 4) = 1
    /\ read_le_short(buf, eocd + 10) >= 1

\* C7: for bufsize >= 22 the EOCD record used is at the greatest offset of
\* the window [max(0, bufsize - 65557), bufsize - 4] holding the signature,
\* and the parse fails with NotAZip exactly when bufsize < 22 or the window
\* holds no signature.
C7_EocdLocation ==
    (pc \in {"values", "done"}) =>
        IF bufsize < 22 \/ Matches = {}
        THEN Failed /\ err = "NotAZip"
        ELSE eocd = Greatest(Matches) /\ err # "NotAZip"

\* a buffer longer than the window with a signature before the window was
\* rejected
C7_Witness ==
    /\ Failed
    /\ err = "NotAZip"
    /\ bufsize > 65557
    /\ read_le_int(buf, 0) = 101010256

\* C8: a record that passes steps 1 to 8 is rejected with
\* InvalidDeclaredSize if it is stored and uncompressedSize > bufsize - d or
\* deflated and compressedSize > bufsize - d, and accepted for every other
\* method whatever its sizes.
C8_MethodSizeCheck ==
    [][(BeforeIteration /\ PassesSteps1To8) =>
         LET d == RecData(p)
             rejected == pc' = "done" /\ ret' # 0 /\ err' = "InvalidDeclaredSize"
             accepted == /\ pc' = "entries"
                         /\ i' = i + 1
                         /\ Len(file'.entries) = Len(file.entries) + 1
         IN  /\ (RecMethod(p) = 0 /\ RecUSize(p) > bufsize - d) => rejected
             /\ (RecMethod(p) = 8 /\ RecCSize(p) > bufsize - d) => rejected
             /\ RecMethod(p) \notin {0, 8} => accepted]_vars

\* a stored entry one byte too large for the buffer was rejected
C8_Witness ==
    /\ Failed
    /\ err = "InvalidDeclaredSize"
    /\ \E r \in 0..(bufsize - 46) :
         /\ RecSig(r) = 33639248
         /\ RecEnd(r) = p
         /\ RecMethod(r) = 0
         /\ RecLocalOff(r) < bufsize - 29
         /\ RecUSize(r) = bufsize - RecData(r) + 1

\* each successful decode moves the cursor by 46 + fileNameLength +
\* extraFieldLength + fileCommentLength, and the name is recorded right
\* after the fixed record at the old cursor
C9_Advance ==
    (BeforeIteration /\ pc' = "entries") =>
        /\ p' = p + 46 + RecNameLen(p) + RecExtraLen(p) + RecCommentLen(p)
        /\ len' = len - (46 + RecNameLen(p) + RecExtraLen(p) + RecCommentLen(p))
        /\ file'.entries[1].fileName = p + 46

\* a decode with fewer than 46 bytes left fails with Truncated and reads
\* nothing
C9_ShortRecord ==
    (BeforeIteration /\ len < 46) =>
        pc' = "done" /\ ret' # 0 /\ err' = "Truncated" /\ reads' = {}

\* the loop starts at centralDirOffset, where the EOCD record says
C9_StartAtCentralDir ==
    (pc = "entries" /\ i = 0) =>
        p = read_le_int(buf, eocd + 16) /\ len = bufsize - p

\* C9 as claimed: the cursor starts at centralDirOffset, every successful
\* decode advances it by the record's size, cursor + remaining = bufsize and
\* remaining >= 0 hold before every iteration, and a decode with
\* remaining < 46 fails with Truncated without reading.
C9_CursorDiscipline ==
    /\ [](BeforeIteration => (p + len = bufsize /\ len >= 0))
    /\ []C9_StartAtCentralDir
    /\ [][C9_Advance]_vars
    /\ [][C9_ShortRecord]_vars

\* C9 amended: as claimed, except that remaining >= 0 holds before every
\* iteration only if centralDirOffset <= bufsize; otherwise the first
\* iteration is entered with a negative remaining (and fails with Truncated).
C9_CursorDisciplineAmended ==
    /\ [](BeforeIteration =>
            /\ p + len = bufsize
            /\ (i > 0 \/ read_le_int(buf, eocd + 16) <= bufsize) => len >= 0)
    /\ []C9_StartAtCentralDir
    /\ [][C9_Advance]_vars
    /\ [][C9_ShortRecord]_vars

\* two records of different sizes were decoded one after the other
C9_Witness ==
    /\ pc = "entries"
    /\ i = 2
    /\ len >= 0
    /\ file.entries[1].fileNameLength # file.entries[2].fileNameLength

\* C10: after a successful parse every recorded name is a non-empty slice
\* inside the buffer starting 46 bytes after its record; a record with
\* fileNameLength = 0 is rejected with MissingFileName and one whose
\* fileNameLength exceeds the remaining length with Truncated.
C10_FileNames ==
    /\ [](Succeeded =>
            \A k \in 1..Len(file.entries) :
                LET e == file.entries[k]
                IN  /\ e.fileNameLength > 0
                    /\ e.fileName >= 46
                    /\ e.fileName + e.fileNameLength <= bufsize
                    /\ e.fileNameLength = RecNameLen(e.fileName - 46))
    /\ [][(BeforeIteration /\ len >= 46 /\ RecSig(p) = 33639248) =>
            /\ RecNameLen(p) = 0 =>
                 pc' = "done" /\ ret' # 0 /\ err' = "MissingFileName"
            /\ RecNameLen(p) > len - 46 =>
                 pc' = "done" /\ ret' # 0 /\ err' = "Truncated"]_vars

\* a parse with a one-byte and a two-byte name has succeeded
C10_Witness ==
    /\ Succeeded
    /\ \E k \in 1..Len(file.entries) : file.entries[k].fileNameLength = 2
    /\ \E k \in 1..Len(file.entries) : file.entries[k].fileNameLength = 1

====
